---- MODULE Spec2Model ----
(***************************************************************************)
(* Model of blackjack.py: the card valuation, the hand evaluator, the      *)
(* dealer policy and the round / session control flow of main().           *)
(*                                                                         *)
(* Spec    the session: rounds played from the initial deal to the         *)
(*         play-again prompt.  One step per random draw of the initial     *)
(*         deal, per answer to a prompt and per iteration of the dealer    *)
(*         loop.                                                           *)
(* SpecDealer  a round in which the player stands at once and the dealer   *)
(*         is dealt and draws cards of every rank.                         *)
(* SpecHit a round in which the player answers hit at every prompt.        *)
(* SpecFn  the pure functions (Card.rank_value, GameState._total_cards,    *)
(*         GameState._check_did_user_bust, _check_did_dealer_bust,         *)
(*         GameState.dealer_should_hit) applied to arguments drawn from    *)
(*         bounded sets.                                                   *)
(*                                                                         *)
(* Standard output is modelled by the outcome lines of the current round   *)
(* only; the rendering of the hands (print_game_state), the header and     *)
(* the "Invalid input." line are not part of the state.                    *)
(***************************************************************************)
EXTENDS Integers, Sequences, FiniteSets, TLC

VARIABLES deck, dealer_cards, user_cards, pc, user_response, output,
          round_end, round, call, ret

vars == <<deck, dealer_cards, user_cards, pc, user_response, output,
          round_end, round, call, ret>>

(***************************************************************************)
(* Bounds.                                                                 *)
(***************************************************************************)
\* the player may answer hit at most MaxHits times in a round
MaxHits == 2
\* the session has at most MaxRounds rounds (round numbers the iterations of
\* the loop of main)
MaxRounds == 2
\* longest hand handed to a pure function in SpecFn
MaxHandLen == 3
\* number of suits (in deck order) the hands of SpecFn are built from
FnSuits == 1
\* the deck positions random.choice is allowed to return in Spec:
\* spade ace, heart 2, club 7, diamond king
DrawPool == {1, 15, 33, 52}
\* in SpecDealer the player is dealt diamond kings and the dealer draws any
\* spade
StandPool == {52}
DealerPool == 1..13
\* the deck positions random.choice is allowed to return in SpecHit:
\* spade ace, club 7, diamond king
HitPool == {1, 33, 52}
\* answers typed at the hit/stand prompt and at the play-again prompt
UserInputs == {"H", "h", "S", "s", "x"}
PlayInputs == {"Y", "y", "", "n"}

(***************************************************************************)
(* Cards and deck.                                                         *)
(***************************************************************************)
CardSuit == <<"SPADE", "HEART", "CLUB", "DIAMOND">>

NumRanks == 13

Card(suit, rank) == [suit |-> suit, rank |-> rank]

\* the ranks looped over from 1: a deck without aces
create_new_deck_no_ace ==
    [i \in 1..(Len(CardSuit) * (NumRanks - 1)) |->
        Card(CardSuit[((i - 1) \div (NumRanks - 1)) + 1],
             ((i - 1) % (NumRanks - 1)) + 1)]

create_new_deck ==
    [i \in 1..(Len(CardSuit) * NumRanks) |->
        Card(CardSuit[((i - 1) \div NumRanks) + 1], (i - 1) % NumRanks)]

\* numeral cards valued one too high
rank_value_plus_two(card, ace_high) ==
    IF card.rank = 0
    THEN (IF ace_high THEN 11 ELSE 1)
    ELSE IF 1 <= card.rank /\ card.rank <= 9
    THEN card.rank + 2
    ELSE 10

\* the ace valued 11 whatever ace_high is
rank_value_fixed_ace(card, ace_high) ==
    IF card.rank = 0
    THEN 11
    ELSE IF 1 <= card.rank /\ card.rank <= 9
    THEN card.rank + 1
    ELSE 10

rank_value(card, ace_high) ==
    IF card.rank = 0
    THEN (IF ace_high THEN 11 ELSE 1)
    ELSE IF 1 <= card.rank /\ card.rank <= 9
    THEN card.rank + 1
    ELSE 10

(***************************************************************************)
(* Hand evaluator and dealer policy.                                       *)
(***************************************************************************)
RECURSIVE sum(_)
sum(values) ==
    IF values = <<>> THEN 0 ELSE Head(values) + sum(Tail(values))

min(a, b) == IF a <= b THEN a ELSE b

card_values(cards, ace_high) ==
    [i \in 1..Len(cards) |-> rank_value(cards[i], ace_high)]

\* every ace counts 11
_total_cards_ace_high(cards) == sum(card_values(cards, TRUE))

\* the aces count 11 unless that sum exceeds 21
_total_cards_high_first(cards) ==
    LET ace_high_sum == sum(card_values(cards, TRUE))
        ace_low_sum  == sum(card_values(cards, FALSE))
    IN  IF ace_high_sum > 21 THEN ace_low_sum ELSE ace_high_sum

\* one ace counts 11 when the hand stays at 21 or under
_total_cards_soft(cards) ==
    LET ace_low_sum == sum(card_values(cards, FALSE))
        has_ace     == \E i \in 1..Len(cards) : cards[i].rank = 0
    IN  IF has_ace /\ ace_low_sum + 10 <= 21 THEN ace_low_sum + 10
        ELSE ace_low_sum

_total_cards(cards) ==
    LET ace_high_sum == sum(card_values(cards, TRUE))
        ace_low_sum  == sum(card_values(cards, FALSE))
    IN  min(ace_high_sum, ace_low_sum)

\* a total of 22 not taken for a bust
_check_did_user_bust_over_22(cards) == _total_cards(cards) > 22

\* a total of exactly 21 taken for a bust
_check_did_user_bust_at_21(cards) == _total_cards(cards) >= 21

_check_did_user_bust(cards) == _total_cards(cards) > 21

\* the dealer hand judged by its all-aces-high sum
_check_did_dealer_bust_high(cards) == sum(card_values(cards, TRUE)) > 21

_check_did_dealer_bust(cards) == _total_cards(cards) > 21

\* the dealer stands on 19 and over only
dealer_should_hit_below_19(cards) ==
    sum(card_values(cards, TRUE)) < 19

\* the dealer stands on every 17
dealer_should_hit_stand_17(cards) ==
    sum(card_values(cards, TRUE)) < 17

dealer_should_hit(cards) ==
    LET dealer_values == card_values(cards, TRUE)
        dealer_total  == sum(dealer_values)
    IN  IF dealer_total > 17
        THEN FALSE
        ELSE IF dealer_total = 17
        THEN (\E i \in 1..Len(dealer_values) : dealer_values[i] = 11)
        ELSE TRUE

\* the dealer's hand is not checked
check_game_state_user_only(ucards, dcards) ==
    IF _check_did_user_bust(ucards) THEN "UserBustException"
    ELSE "none"

\* the exception check_game_state raises, "none" when it returns
check_game_state(ucards, dcards) ==
    IF _check_did_user_bust(ucards) THEN "UserBustException"
    ELSE IF _check_did_dealer_bust(dcards) THEN "DealerBustException"
    ELSE "none"

\* the hand scored by the hand evaluator
hand_sum_total(cards) == _total_cards(cards)

\* the sum evaluate_game_state compares for one hand
hand_sum(cards) ==
    LET high == sum(card_values(cards, TRUE))
    IN  IF high > 21 THEN sum(card_values(cards, FALSE)) ELSE high

\* the line evaluate_game_state prints
evaluate_game_state(ucards, dcards) ==
    LET user_sum   == hand_sum(ucards)
        dealer_sum == hand_sum(dcards)
    IN  IF user_sum > dealer_sum THEN "You win!"
        ELSE IF dealer_sum > user_sum THEN "You lose!"
        ELSE "Push!"

\* the two except clauses print each other's line
main_except_swapped(exc) ==
    IF exc = "UserBustException" THEN "Dealer bust: you win!"
    ELSE "You bust: game over!"

\* the line the except clauses of main print for an exception
main_except(exc) ==
    IF exc = "UserBustException" THEN "You bust: game over!"
    ELSE "Dealer bust: you win!"

play_again_prompt(user_input) == user_input \in {"Y", "y", ""}

\* everything but S or s taken for a hit
is_hit_unless_stand(response) == response \notin {"S", "s"}

is_hit(response) == response \in {"H", "h"}

is_stand(response) == response \in {"S", "s"}

\* the cards random.choice(self.deck) may return, when it picks one of the
\* deck positions in pool
_draw_card(d, pool) == {d[i] : i \in (DOMAIN d) \cap pool}

draw_card_for_dealer(cards, card) == Append(cards, card)

\* the card inserted at the front of the hand
draw_card_for_user_insert(cards, card) == <<card>> \o cards

draw_card_for_user(cards, card) == Append(cards, card)

(***************************************************************************)
(* Program positions.                                                      *)
(***************************************************************************)
NoInput == "<none>"

NoCall == [fn |-> "none", card |-> Card("SPADE", 0), ace_high |-> FALSE,
           cards |-> <<>>]

\* both cards of the player dealt before the dealer's
initial_draw_phase_user_first(n) ==
    IF n <= 2 THEN "user" ELSE "dealer"

\* who receives the n-th card of initial_draw_phase
initial_draw_phase(n) ==
    IF n = 1 THEN "user"
    ELSE IF n = 2 THEN "dealer"
    ELSE IF n = 3 THEN "user"
    ELSE "dealer"

InitialDrawPc == <<"initial_draw_1", "initial_draw_2", "initial_draw_3",
                   "initial_draw_4">>

\* the state of the round a program position stands for
Phase ==
    IF \E n \in 1..4 : pc = InitialDrawPc[n] THEN "Dealing"
    ELSE IF pc = "user_prompt" THEN "PlayerTurn"
    ELSE IF pc = "dealer_loop" THEN "DealerTurn"
    ELSE IF round_end = "returned" THEN "Settled"
    ELSE IF round_end = "UserBustException" THEN "PlayerBust"
    ELSE IF round_end = "DealerBustException" THEN "DealerBust"
    ELSE "none"

(***************************************************************************)
(* The session.                                                            *)
(***************************************************************************)
Init ==
    /\ deck = create_new_deck
    /\ dealer_cards = <<>>
    /\ user_cards = <<>>
    /\ pc = "initial_draw_1"
    /\ user_response = NoInput
    /\ output = <<>>
    /\ round_end = "none"
    /\ round = 1
    /\ call = NoCall
    /\ ret = <<>>

\* the exception propagates to main, whose handler prints the outcome and
\* whose finally clause asks whether to play again
Raise(exc) ==
    /\ output' = Append(output, main_except(exc))
    /\ round_end' = exc
    /\ user_response' = NoInput
    /\ pc' = "play_again_prompt"

\* one of the four draws of initial_draw_phase, the player's cards drawn at
\* the deck positions upool and the dealer's at the deck positions dpool
InitialDrawFrom(upool, dpool) ==
    \E n \in 1..4 :
        /\ pc = InitialDrawPc[n]
        /\ IF initial_draw_phase(n) = "user"
           THEN /\ \E card \in _draw_card(deck, upool) :
                       user_cards' = draw_card_for_user(user_cards, card)
                /\ UNCHANGED dealer_cards
           ELSE /\ \E card \in _draw_card(deck, dpool) :
                       dealer_cards' = draw_card_for_dealer(dealer_cards, card)
                /\ UNCHANGED user_cards
        /\ pc' = IF n < 4 THEN InitialDrawPc[n + 1] ELSE "user_prompt"
        /\ UNCHANGED <<deck, user_response, output, round_end, round, call,
                       ret>>

InitialDraw == InitialDrawFrom(DrawPool, DrawPool)

\* user_draw_phase, answer H or h, the card drawn at a deck position in pool
UserHitFrom(pool) ==
    \E response \in UserInputs : \E card \in _draw_card(deck, pool) :
        /\ pc = "user_prompt"
        /\ is_hit(response)
        /\ user_cards' = draw_card_for_user(user_cards, card)
        /\ LET exc == check_game_state(user_cards', dealer_cards)
           IN  IF exc # "none"
               THEN Raise(exc)
               ELSE /\ user_response' = response
                    /\ UNCHANGED <<pc, output, round_end>>
        /\ UNCHANGED <<deck, dealer_cards, round, call, ret>>

UserHit ==
    /\ Len(user_cards) < 2 + MaxHits
    /\ UserHitFrom(DrawPool)

\* user_draw_phase, answer S or s: the loop ends and dealer_draw_phase starts
UserStand ==
    \E response \in UserInputs :
        /\ pc = "user_prompt"
        /\ ~ is_hit(response)
        /\ is_stand(response)
        /\ user_response' = NoInput
        /\ pc' = "dealer_loop"
        /\ UNCHANGED <<deck, dealer_cards, user_cards, output, round_end,
                       round, call, ret>>

\* user_draw_phase, any other answer
UserInvalid ==
    \E response \in UserInputs :
        /\ pc = "user_prompt"
        /\ ~ is_hit(response)
        /\ ~ is_stand(response)
        /\ user_response' = response
        /\ UNCHANGED <<deck, dealer_cards, user_cards, pc, output, round_end,
                       round, call, ret>>

\* one iteration of the loop of dealer_draw_phase, the card drawn at a deck
\* position in pool
DealerDrawFrom(pool) ==
    \E card \in _draw_card(deck, pool) :
        /\ pc = "dealer_loop"
        /\ dealer_should_hit(dealer_cards)
        /\ dealer_cards' = draw_card_for_dealer(dealer_cards, card)
        /\ LET exc == check_game_state(user_cards, dealer_cards')
           IN  IF exc # "none"
               THEN Raise(exc)
               ELSE UNCHANGED <<pc, user_response, output, round_end>>
        /\ UNCHANGED <<deck, user_cards, round, call, ret>>

DealerDraw == DealerDrawFrom(DrawPool)

\* the loop of dealer_draw_phase ends and evaluate_game_state reports
DealerStand ==
    /\ pc = "dealer_loop"
    /\ ~ dealer_should_hit(dealer_cards)
    /\ output' = Append(output, evaluate_game_state(user_cards, dealer_cards))
    /\ round_end' = "returned"
    /\ pc' = "play_again_prompt"
    /\ UNCHANGED <<deck, dealer_cards, user_cards, user_response, round, call,
                   ret>>

\* the hand lists of the previous round used again
create_new_game_state_shared ==
    [deck |-> create_new_deck, dealer_cards |-> dealer_cards,
     user_cards |-> user_cards]

\* the game state a round starts with
create_new_game_state ==
    [deck |-> create_new_deck, dealer_cards |-> <<>>, user_cards |-> <<>>]

\* main: the answer continues the session with a new round
PlayAgain ==
    \E user_input \in PlayInputs :
        /\ pc = "play_again_prompt"
        /\ play_again_prompt(user_input)
        /\ round < MaxRounds
        /\ round' = round + 1
        /\ deck' = create_new_game_state.deck
        /\ dealer_cards' = create_new_game_state.dealer_cards
        /\ user_cards' = create_new_game_state.user_cards
        /\ output' = <<>>
        /\ round_end' = "none"
        /\ pc' = "initial_draw_1"
        /\ UNCHANGED <<user_response, call, ret>>

\* main: the answer ends the session
Quit ==
    \E user_input \in PlayInputs :
        /\ pc = "play_again_prompt"
        /\ ~ play_again_prompt(user_input)
        /\ pc' = "exit"
        /\ UNCHANGED <<deck, dealer_cards, user_cards, user_response, output,
                       round_end, round, call, ret>>

Next ==
    \/ InitialDraw
    \/ UserHit
    \/ UserStand
    \/ UserInvalid
    \/ DealerDraw
    \/ DealerStand
    \/ PlayAgain
    \/ Quit

Spec == Init /\ [][Next]_vars

(***************************************************************************)
(* The dealer's turn with every rank: the player is dealt two kings and    *)
(* stands, the dealer is dealt and draws any spade.  dealer_draw_phase     *)
(* runs without waiting for input, so its loop is weakly fair.             *)
(***************************************************************************)
DealerInitialDraw == InitialDrawFrom(StandPool, DealerPool)

DealerDrawAny == DealerDrawFrom(DealerPool)

NextDealer ==
    \/ DealerInitialDraw
    \/ UserStand
    \/ DealerDrawAny
    \/ DealerStand

SpecDealer ==
    /\ Init
    /\ [][NextDealer]_vars
    /\ WF_vars(DealerDrawAny)
    /\ WF_vars(DealerStand)

(***************************************************************************)
(* The round of a player who answers hit at every prompt, however often.   *)
(***************************************************************************)
HitInitialDraw == InitialDrawFrom(HitPool, HitPool)

UserHitAgain == UserHitFrom(HitPool)

NextHit ==
    \/ HitInitialDraw
    \/ UserHitAgain

SpecHit ==
    /\ Init
    /\ [][NextHit]_vars
    /\ WF_vars(UserHitAgain)

(***************************************************************************)
(* The pure functions, applied to arguments drawn from bounded sets.       *)
(***************************************************************************)
\* the cards of the first FnSuits suits of the deck
FnCards == {create_new_deck[i] : i \in 1..(FnSuits * NumRanks)}

\* the hands of at most MaxHandLen of these cards
FnHands == UNION {[1..n -> FnCards] : n \in 0..MaxHandLen}

FnCalls ==
    {[fn |-> "rank_value", card |-> create_new_deck[i], ace_high |-> b,
      cards |-> <<>>] : i \in DOMAIN create_new_deck, b \in BOOLEAN}
    \cup
    {[fn |-> f, card |-> NoCall.card, ace_high |-> FALSE, cards |-> h] :
        f \in {"_total_cards", "dealer_should_hit", "_check_did_user_bust",
               "_check_did_dealer_bust"},
        h \in FnHands}

InitFn ==
    /\ call \in FnCalls
    /\ deck = create_new_deck
    /\ dealer_cards =
           IF call.fn \in {"dealer_should_hit", "_check_did_dealer_bust"}
           THEN call.cards ELSE <<>>
    /\ user_cards =
           IF call.fn = "_check_did_user_bust" THEN call.cards ELSE <<>>
    /\ pc = "call"
    /\ user_response = NoInput
    /\ output = <<>>
    /\ round_end = "none"
    /\ round = 1
    /\ ret = <<>>

Return(value) ==
    /\ ret' = <<value>>
    /\ pc' = "return"
    /\ UNCHANGED <<deck, dealer_cards, user_cards, user_response, output,
                   round_end, round, call>>

CallRankValue ==
    /\ pc = "call"
    /\ call.fn = "rank_value"
    /\ Return(rank_value(call.card, call.ace_high))

CallTotalCards ==
    /\ pc = "call"
    /\ call.fn = "_total_cards"
    /\ Return(_total_cards(call.cards))

CallDealerShouldHit ==
    /\ pc = "call"
    /\ call.fn = "dealer_should_hit"
    /\ Return(dealer_should_hit(dealer_cards))

CallCheckDidUserBust ==
    /\ pc = "call"
    /\ call.fn = "_check_did_user_bust"
    /\ Return(_check_did_user_bust(user_cards))

CallCheckDidDealerBust ==
    /\ pc = "call"
    /\ call.fn = "_check_did_dealer_bust"
    /\ Return(_check_did_dealer_bust(dealer_cards))

NextFn ==
    \/ CallRankValue
    \/ CallTotalCards
    \/ CallDealerShouldHit
    \/ CallCheckDidUserBust
    \/ CallCheckDidDealerBust

SpecFn == InitFn /\ [][NextFn]_vars

(***************************************************************************)
(* Properties.                                                             *)
(***************************************************************************)
\* the value of a card that is not an ace: the number printed on it, 10 for
\* jack, queen and king
FaceValue(rank) == IF rank >= 10 THEN 10 ELSE rank + 1

RECURSIVE AcesIn(_)
AcesIn(cards) ==
    IF cards = <<>> THEN 0
    ELSE (IF Head(cards).rank = 0 THEN 1 ELSE 0) + AcesIn(Tail(cards))

RECURSIVE OthersIn(_)
OthersIn(cards) ==
    IF cards = <<>> THEN 0
    ELSE (IF Head(cards).rank = 0 THEN 0 ELSE FaceValue(Head(cards).rank))
         + OthersIn(Tail(cards))

\* the sum of a hand with every ace counted 11, and with every ace counted 1
HighSum(cards) == OthersIn(cards) + 11 * AcesIn(cards)
LowSum(cards) == OthersIn(cards) + AcesIn(cards)

Returned(fn) == pc = "return" /\ call.fn = fn

\* C2: for every hand, _total_cards returns the smaller of the sum with all
\* aces counted 11 and the sum with all aces counted 1
C2_TotalIsMinOfHighAndLow ==
    Returned("_total_cards") =>
        ret = <<IF HighSum(call.cards) <= LowSum(call.cards)
                THEN HighSum(call.cards) ELSE LowSum(call.cards)>>

\* the hand [Ace, Ace, 9] has been totalled, and its total is 11
C2_Witness ==
    /\ Returned("_total_cards")
    /\ [i \in 1..Len(call.cards) |-> call.cards[i].rank] = <<0, 0, 8>>
    /\ ret = <<11>>

\* C3 as stated: a card of rank 1..9 is worth rank + 2 under both ace
\* interpretations
C3_RankPlusTwo ==
    (Returned("rank_value") /\ call.card.rank \in 1..9) =>
        ret = <<call.card.rank + 2>>

\* C3 amended: a card of rank 1..9 is worth rank + 1 under both ace
\* interpretations
C3_RankPlusOne ==
    (Returned("rank_value") /\ call.card.rank \in 1..9) =>
        ret = <<call.card.rank + 1>>

\* the value of a card of rank 9 (a ten) has been returned for ace_high
C3_Witness ==
    /\ Returned("rank_value")
    /\ call.card.rank = 9
    /\ call.ace_high
    /\ ret = <<10>>

\* C4: a card of rank 10, 11 or 12 is worth 10 under both ace
\* interpretations; an ace is worth 11 when ace_high and 1 otherwise
C4_FacesAndAce ==
    Returned("rank_value") =>
        /\ call.card.rank \in 10..12 => ret = <<10>>
        /\ (call.card.rank = 0 /\ call.ace_high) => ret = <<11>>
        /\ (call.card.rank = 0 /\ ~ call.ace_high) => ret = <<1>>

\* the value of an ace has been returned for ace_high = false
C4_Witness ==
    /\ Returned("rank_value")
    /\ call.card.rank = 0
    /\ ~ call.ace_high
    /\ ret = <<1>>

\* C5: dealer_should_hit is decided by the all-aces-high sum S of the dealer
\* hand and by whether it holds an ace: hit iff S < 17, or S = 17 with an ace
C5_DealerPolicy ==
    Returned("dealer_should_hit") =>
        ret = <<\/ HighSum(dealer_cards) < 17
                \/ HighSum(dealer_cards) = 17 /\ AcesIn(dealer_cards) > 0>>

\* the policy has been asked about the soft 17 [Ace, 6] and said hit
C5_Witness ==
    /\ Returned("dealer_should_hit")
    /\ [i \in 1..Len(dealer_cards) |-> dealer_cards[i].rank] = <<0, 5>>
    /\ ret = <<TRUE>>

\* the hand evaluator's total: the smaller of the two sums
Total(cards) ==
    IF HighSum(cards) <= LowSum(cards) THEN HighSum(cards) ELSE LowSum(cards)

\* the sum compared at settlement: all aces 11, all aces 1 when that is over 21
SettlementSum(cards) ==
    IF HighSum(cards) > 21 THEN LowSum(cards) ELSE HighSum(cards)

\* hit, by the dealer policy as stated
PolicyHit(cards) ==
    \/ HighSum(cards) < 17
    \/ HighSum(cards) = 17 /\ AcesIn(cards) > 0

Ranks(cards) == [i \in 1..Len(cards) |-> cards[i].rank]

Reported == output[Len(output)]

\* a new round starts: both hands are empty again
NewRound ==
    /\ Phase' = "Dealing"
    /\ user_cards' = <<>>
    /\ dealer_cards' = <<>>

\* C1 as stated: in Settled the outcome compares the hand evaluator's totals:
\* player wins iff total(player) > total(dealer), dealer wins iff
\* total(dealer) > total(player), push iff they are equal
C1_OutcomeByTotals ==
    Phase = "Settled" =>
        /\ Reported = "You win!" <=> Total(user_cards) > Total(dealer_cards)
        /\ Reported = "You lose!" <=> Total(dealer_cards) > Total(user_cards)
        /\ Reported = "Push!" <=> Total(user_cards) = Total(dealer_cards)

\* C1 amended: in Settled the outcome compares, for each hand, the
\* all-aces-high sum, or the all-aces-low sum when the all-aces-high sum
\* exceeds 21
C1_OutcomeBySettlementSums ==
    Phase = "Settled" =>
        /\ Reported = "You win!" <=>
               SettlementSum(user_cards) > SettlementSum(dealer_cards)
        /\ Reported = "You lose!" <=>
               SettlementSum(dealer_cards) > SettlementSum(user_cards)
        /\ Reported = "Push!" <=>
               SettlementSum(user_cards) = SettlementSum(dealer_cards)

\* the round is settled with player [Ace, King] against dealer [King, 7]:
\* the player wins 21 to 17, though the totals are 11 and 17
C1_Witness ==
    /\ Phase = "Settled"
    /\ Ranks(user_cards) = <<0, 12>>
    /\ Ranks(dealer_cards) = <<12, 6>>
    /\ Reported = "You win!"

\* C6: the phases advance Dealing, PlayerTurn, DealerTurn, Settled, never
\* backwards or skipping; PlayerBust is entered from PlayerTurn only and
\* DealerBust from DealerTurn only; Settled, PlayerBust and DealerBust last
\* until a new round starts
C6_PhaseOrder ==
    [][\/ <<Phase, Phase'>> \in
              {<<"Dealing", "Dealing">>, <<"Dealing", "PlayerTurn">>,
               <<"PlayerTurn", "PlayerTurn">>, <<"PlayerTurn", "DealerTurn">>,
               <<"PlayerTurn", "PlayerBust">>,
               <<"DealerTurn", "DealerTurn">>, <<"DealerTurn", "Settled">>,
               <<"DealerTurn", "DealerBust">>}
       \/ /\ Phase \in {"Settled", "PlayerBust", "DealerBust"}
          /\ \/ Phase' = Phase /\ UNCHANGED <<user_cards, dealer_cards, output>>
             \/ NewRound]_vars

\* the player has hit and is still in PlayerTurn while the dealer's two cards
\* sum to more than 21 with the aces high: no dealer bust was raised
C6_Witness ==
    /\ Phase = "PlayerTurn"
    /\ Len(user_cards) = 3
    /\ HighSum(dealer_cards) > 21

\* C7: in PlayerTurn, after a hit the round goes to PlayerBust and reports
\* the bust iff the player's total exceeds 21, and otherwise stays in
\* PlayerTurn; in PlayerBust no card is drawn and no other phase of the
\* round is entered
C7_PlayerBust ==
    [][/\ (Phase = "PlayerTurn" /\ user_cards' # user_cards) =>
              /\ dealer_cards' = dealer_cards
              /\ IF Total(user_cards') > 21
                 THEN /\ Phase' = "PlayerBust"
                      /\ output' = Append(output, "You bust: game over!")
                 ELSE /\ Phase' = "PlayerTurn"
                      /\ output' = output
       /\ Phase = "PlayerBust" =>
              \/ Phase' = "PlayerBust" /\ UNCHANGED <<user_cards, dealer_cards>>
              \/ NewRound]_vars

\* the player hit to a total over 21 and the round is in PlayerBust
C7_Witness ==
    /\ Phase = "PlayerBust"
    /\ Total(user_cards) > 21
    /\ Len(dealer_cards) = 2
    /\ output = <<"You bust: game over!">>

\* C8: in DealerTurn the dealer draws only when the policy says hit on the
\* current hand, a draw leads to DealerBust iff the dealer's total then
\* exceeds 21, and Settled is entered only when the policy says stand on the
\* current hand
C8_DealerLoop ==
    [][Phase = "DealerTurn" =>
           /\ dealer_cards' # dealer_cards =>
                  /\ PolicyHit(dealer_cards)
                  /\ Len(dealer_cards') = Len(dealer_cards) + 1
                  /\ Phase' = IF Total(dealer_cards') > 21 THEN "DealerBust"
                              ELSE "DealerTurn"
           /\ Phase' = "Settled" =>
                  /\ ~ PolicyHit(dealer_cards)
                  /\ dealer_cards' = dealer_cards]_vars

\* the dealer drew twice, each time on a fresh decision, and then stood
C8_Witness ==
    /\ Phase = "Settled"
    /\ Len(dealer_cards) = 4
    /\ ~ PolicyHit(dealer_cards)

\* C9: Dealing starts with two empty hands and draws four cards in the order
\* player, dealer, player, dealer, entering PlayerTurn with two cards in each
\* hand; nothing is reported and the round does not end during Dealing
C9_InitialDeal ==
    /\ Phase = "Dealing" /\ user_cards = <<>> /\ dealer_cards = <<>>
    /\ [][/\ (Phase # "Dealing" /\ Phase' = "Dealing") => NewRound
          /\ Phase = "Dealing" =>
                 LET n == Len(user_cards) + Len(dealer_cards)
                 IN  /\ n < 4
                     /\ IF n \in {0, 2}
                        THEN /\ Len(user_cards') = Len(user_cards) + 1
                             /\ dealer_cards' = dealer_cards
                        ELSE /\ Len(dealer_cards') = Len(dealer_cards) + 1
                             /\ user_cards' = user_cards
                     /\ Phase' = IF n = 3 THEN "PlayerTurn" ELSE "Dealing"
                     /\ n = 3 => Len(user_cards') = 2 /\ Len(dealer_cards') = 2
                     /\ output' = <<>>
                     /\ round_end' = "none"]_vars

\* the round has just entered PlayerTurn with two cards in each hand
C9_Witness ==
    /\ Phase = "PlayerTurn"
    /\ user_response = NoInput
    /\ Len(user_cards) = 2
    /\ Len(dealer_cards) = 2
    /\ output = <<>>

\* C10: in PlayerTurn an answer other than H, h, S or s leaves the player
\* hand, the dealer hand, the deck and the phase unchanged
C10_InvalidInput ==
    [][(/\ Phase = "PlayerTurn"
        /\ user_response' \notin {"H", "h", "S", "s", NoInput}) =>
           /\ UNCHANGED <<user_cards, dealer_cards, deck>>
           /\ Phase' = "PlayerTurn"]_vars

\* an invalid answer was given after a hit, and the round still waits in
\* PlayerTurn with the three cards
C10_Witness ==
    /\ Phase = "PlayerTurn"
    /\ user_response = "x"
    /\ Len(user_cards) = 3
    /\ Len(dealer_cards) = 2

Terminal == {"Settled", "PlayerBust", "DealerBust"}

\* the 52 cards: one per suit and rank 0..12
FullDeck ==
    [suit : {"SPADE", "HEART", "CLUB", "DIAMOND"}, rank : 0..12]

CardsOf(cards) == {cards[i] : i \in 1..Len(cards)}

IsPrefix(a, b) == Len(a) <= Len(b) /\ SubSeq(b, 1, Len(a)) = a

\* C11: a round that has ended has printed exactly one outcome line, the
\* line of the terminal state reached; a round that has not ended has
\* printed none; the play-again prompt and the next round come after the line
C11_OneOutcomeMessage ==
    /\ [](/\ Phase = "Settled" =>
                 /\ Len(output) = 1
                 /\ output[1] \in {"You win!", "You lose!", "Push!"}
          /\ Phase = "PlayerBust" => output = <<"You bust: game over!">>
          /\ Phase = "DealerBust" => output = <<"Dealer bust: you win!">>
          /\ Phase \notin Terminal => output = <<>>
          /\ pc = "play_again_prompt" => Phase \in Terminal)
    /\ [][round' # round => (Phase \in Terminal /\ Len(output) = 1)]_vars

\* the second round of a session has ended in PlayerBust with its one line
C11_Witness ==
    /\ round = 2
    /\ pc = "play_again_prompt"
    /\ Phase = "PlayerBust"
    /\ output = <<"You bust: game over!">>

\* C12: the deck always holds the 52 distinct cards, one per suit and rank
\* 0..12, in an order no step changes; every card of a hand is one of them
C12_DeckIsConstant ==
    /\ [](/\ Len(deck) = 52
          /\ CardsOf(deck) = FullDeck
          /\ CardsOf(user_cards) \subseteq CardsOf(deck)
          /\ CardsOf(dealer_cards) \subseteq CardsOf(deck))
    /\ [][deck' = deck]_vars

\* the player holds the same card twice while the deck is whole
C12_Witness ==
    /\ Phase = "PlayerTurn"
    /\ \E i, j \in 1..Len(user_cards) : i < j /\ user_cards[i] = user_cards[j]
    /\ CardsOf(deck) = FullDeck

\* C13: within a round every step keeps each hand as a prefix of the hand
\* after it and appends at most one card to at most one hand
C13_HandsGrowByAppend ==
    [][round' = round =>
           /\ IsPrefix(user_cards, user_cards')
           /\ IsPrefix(dealer_cards, dealer_cards')
           /\ Len(user_cards') + Len(dealer_cards')
                  <= Len(user_cards) + Len(dealer_cards) + 1]_vars

\* both hands have grown beyond the deal
C13_Witness ==
    /\ Len(user_cards) = 4
    /\ Len(dealer_cards) = 4
    /\ user_cards[1] # user_cards[4]

\* C14: a new round starts from a terminal state of the previous round, with
\* the full 52-card deck, two empty hands and nothing carried over
C14_RoundsIndependent ==
    [][round' # round =>
           /\ Phase \in Terminal
           /\ Phase' = "Dealing"
           /\ user_cards' = <<>>
           /\ dealer_cards' = <<>>
           /\ Len(deck') = 52
           /\ CardsOf(deck') = FullDeck
           /\ output' = <<>>
           /\ round_end' = "none"
           /\ user_response' = NoInput]_vars

\* the second round is about to deal its first card
C14_Witness ==
    /\ round = 2
    /\ pc = "initial_draw_1"
    /\ user_cards = <<>>
    /\ dealer_cards = <<>>
    /\ CardsOf(deck) = FullDeck

\* C15: the round is never in Settled with a dealer hand that
\* evaluate_game_state scores under 17
C15_DealerSettlesAt17OrMore ==
    Phase = "Settled" => SettlementSum(dealer_cards) >= 17

\* C16: the dealer's turn ends in Settled or DealerBust; each dealer draw
\* raises the dealer's all-aces-high sum; the dealer hand never holds more
\* than 9 cards
C16_DealerTurnEnds ==
    /\ [](Len(dealer_cards) <= 9)
    /\ [][(Phase = "DealerTurn" /\ dealer_cards' # dealer_cards) =>
              /\ HighSum(dealer_cards') > HighSum(dealer_cards)
              /\ user_cards' = user_cards
              /\ user_response' = user_response]_vars
    /\ (Phase = "DealerTurn") ~> (Phase \in {"Settled", "DealerBust"})

\* the dealer stood after seven draws, with nine cards
C16_Witness ==
    /\ Phase = "Settled"
    /\ Len(dealer_cards) = 9

\* C17: in Settled both sums compared are at most 21; a hand whose total
\* exceeds 21 is only found in the bust state of its owner
C17_SettledSumsAtMost21 ==
    /\ Phase = "Settled" =>
           /\ SettlementSum(user_cards) <= 21
           /\ SettlementSum(dealer_cards) <= 21
    /\ Total(user_cards) > 21 => Phase = "PlayerBust"
    /\ Total(dealer_cards) > 21 => Phase = "DealerBust"

\* the round is settled after draws by both sides, the dealer's hand being
\* over 21 with the aces high
C17_Witness ==
    /\ Phase = "Settled"
    /\ Len(user_cards) = 3
    /\ Len(dealer_cards) = 3
    /\ HighSum(dealer_cards) > 21

\* C18: _total_cards returns the all-aces-low sum, which is never above the
\* all-aces-high sum, and each bust check says bust iff the all-aces-low sum
\* exceeds 21
C18_TotalIsLowSum ==
    /\ Returned("_total_cards") =>
           /\ ret = <<LowSum(call.cards)>>
           /\ LowSum(call.cards) <= HighSum(call.cards)
    /\ Returned("_check_did_user_bust") => ret = <<LowSum(user_cards) > 21>>
    /\ Returned("_check_did_dealer_bust") =>
           ret = <<LowSum(dealer_cards) > 21>>

\* the hand [Ace, King, King] was checked and is not bust
C18_Witness ==
    /\ Returned("_check_did_user_bust")
    /\ Ranks(user_cards) = <<0, 12, 12>>
    /\ ret = <<FALSE>>

\* C19: each hit raises the player's total, the player hand never holds more
\* than 22 cards, and the player who always hits ends in PlayerBust
C19_HitsEndInBust ==
    /\ [](Len(user_cards) <= 22)
    /\ [][(Phase = "PlayerTurn" /\ user_cards' # user_cards) =>
              Total(user_cards') > Total(user_cards)]_vars
    /\ (Phase = "PlayerTurn") ~> (Phase = "PlayerBust")

\* the player went bust on the 22nd card
C19_Witness ==
    /\ Phase = "PlayerBust"
    /\ Len(user_cards) = 22

====
